---- MODULE Spec2Model ----
(***************************************************************************)
(* Model of silent-alarm-detector: the impact assessor                     *)
(* (analyzers/impact_assessor.py) and the pattern detection engine         *)
(* (analyzers/pattern_detector.py).                                        *)
(*                                                                         *)
(* The assessor computes with Python floats (IEEE-754 binary64, round to   *)
(* nearest, ties to even).  The model keeps that arithmetic: a float is a  *)
(* fixed-point number in units of 2^-60 held in limbs of 15 bits, and     *)
(* every float operation rounds its exact result to 53 significant bits.  *)
(***************************************************************************)
EXTENDS Integers, Sequences, FiniteSets, TLC

VARIABLES
    findings,     \* the list a caller passes to ImpactAssessor.assess_impact
    impact,       \* <<the ImpactScore returned by assess_impact(findings)>>, or <<>>
    heap,         \* the list objects created so far, each a sequence of Detections
    self_detections,  \* SilentAlarmDetector.detections: the index of a list in heap
    calls,        \* the analyze_code calls made on the detector, as their caller saw them
    report,       \* <<what generate_impact_report(findings) returned>>, or <<>>
    detectors,    \* per detector object used by threads: the list its detections refers to
    threads,      \* per thread: where its analyze_code invocation stands
    hook          \* the run of the hook's main

vars == <<findings, impact, heap, self_detections, calls, report,
          detectors, threads, hook>>

(***************************************************************************)
(* Bounds of the model.                                                    *)
(***************************************************************************)
MaxFindings == 3
MaxUnits == 2
MaxCalls == 3
MaxReported == 6
MaxObjects == 2
MaxEmitted == 3

(***************************************************************************)
(* binary64 arithmetic on non-negative values.                             *)
(* A value x is the tuple N of NLimbs limbs, least significant first, with *)
(* x = (N[1] + N[2]*2^15 + ...) * 2^-60.  Limbs 1..4 are the fraction,     *)
(* limbs 5.. the integer part.  Every double in [2^-7, 2^15) is exact in   *)
(* this format.                                                            *)
(***************************************************************************)
LimbBits == 5 * 3
LimbBase == 2 ^ LimbBits
NLimbs == 3 + 3
FracLimbs == 2 + 2
Mantissa == 50 + 3
Limbs == 1 .. NLimbs

FZero == <<0, 0, 0, 0, 0, 0>>

\* Propagate carries from limb i upward: raw[i] may exceed LimbBase.
RECURSIVE NormFrom(_, _, _)
NormFrom(raw, i, carry) ==
    IF i > NLimbs THEN <<>>
    ELSE LET v == raw[i] + carry
         IN  <<v % LimbBase>> \o NormFrom(raw, i + 1, v \div LimbBase)

Norm(raw) == NormFrom(raw, 1, 0)

RECURSIVE BitLen(_)
BitLen(v) == IF v = 0 THEN 0 ELSE 1 + BitLen(v \div 2)

\* Number of significant bits of N.
BitLength(N) ==
    LET nz == {i \in Limbs : N[i] # 0}
    IN  IF nz = {} THEN 0
        ELSE LET top == CHOOSE i \in nz : \A j \in nz : j <= i
             IN  LimbBits * (top - 1) + BitLen(N[top])

\* Round the exact value N (+ a non-zero remainder below the last unit when
\* sticky = 1) to 53 significant bits, to nearest, ties to even.
Round53(N, sticky) ==
    LET d == BitLength(N) - Mantissa
    IN  IF d <= 0 THEN N
        ELSE LET q    == 2 ^ d
                 low  == N[1] + LimbBase * N[2]
                 lo   == low % q
                 half == q \div 2
                 odd  == IF d < 2 * LimbBits THEN (low \div q) % 2 = 1
                                             ELSE N[3] % 2 = 1
                 up   == lo > half \/ (lo = half /\ (sticky = 1 \/ odd))
                 nlow == low - lo + (IF up THEN q ELSE 0)
             IN  Norm([i \in Limbs |->
                        IF i = 1 THEN nlow % LimbBase
                        ELSE IF i = 2 THEN nlow \div LimbBase
                        ELSE N[i]])

\* Exact product of a double and a small integer.
MulSmall(N, k) == Norm([i \in Limbs |-> N[i] * k])

\* Exact quotient and remainder of N by a small integer n (long division
\* from the most significant limb down).
RECURSIVE DivFrom(_, _, _, _)
DivFrom(N, n, i, r) ==
    IF i = 0 THEN [quot |-> <<>>, rem |-> r]
    ELSE LET v     == r * LimbBase + N[i]
             lower == DivFrom(N, n, i - 1, v % n)
         IN  [quot |-> Append(lower.quot, v \div n), rem |-> lower.rem]

DivSmall(N, n) == DivFrom(N, n, NLimbs, 0)

\* float + float
FAdd(A, B) == Round53(Norm([i \in Limbs |-> A[i] + B[i]]), 0)

\* (k2 / 2) * float, for an integer k2: k2/2 is itself an exact double.
FMulHalves(k2, C) == Round53(DivSmall(MulSmall(C, k2), 2).quot, 0)

\* int * float
FMulInt(k, C) == Round53(MulSmall(C, k), 0)

\* float / int
FDivInt(N, n) ==
    LET qr == DivSmall(N, n)
    IN  Round53(qr.quot, IF qr.rem # 0 THEN 1 ELSE 0)

\* int(float): truncation toward zero.
Trunc(N) == N[FracLimbs + 1] + LimbBase * N[FracLimbs + 2]

\* round(float, 1): the decimal with one digit nearest to the exact binary
\* value (ties to even), given as its number of tenths.
RoundTenths(N) ==
    LET T    == MulSmall(N, 10)
        ip   == Trunc(T)
        top  == T[FracLimbs]
        rest == T[1] + T[2] + T[3]
        h    == LimbBase \div 2
        gt   == top > h \/ (top = h /\ rest > 0)
        tie  == top = h /\ rest = 0
    IN  ip + (IF gt \/ (tie /\ ip % 2 = 1) THEN 1 ELSE 0)

\* The binary64 value of a decimal literal of the source.
DoubleOf(lit) ==
    CASE lit = "1.0"  -> <<0, 0, 0, 0, 1, 0>>
      [] lit = "0.95" -> <<13056, 26214, 19660, 31129, 0, 0>>
      [] lit = "0.9"  -> <<26240, 19660, 6553, 29491, 0, 0>>
      [] lit = "0.85" -> <<6528, 13107, 26214, 27852, 0, 0>>
      [] lit = "0.8"  -> <<19712, 6553, 13107, 26214, 0, 0>>
      [] lit = "0.7"  -> <<13056, 26214, 19660, 22937, 0, 0>>
      [] lit = "0.6"  -> <<6528, 13107, 26214, 19660, 0, 0>>
      [] lit = "0.5"  -> <<0, 0, 0, 16384, 0, 0>>
      [] lit = "0.4"  -> <<26240, 19660, 6553, 13107, 0, 0>>
      [] lit = "0.3"  -> <<19648, 6553, 13107, 9830, 0, 0>>

(***************************************************************************)
(* pattern_detector.py: the enumerations.                                  *)
(***************************************************************************)
PatternType ==
    {"silent_fallback", "warning_suppression", "assumption_bypass",
     "duplicate_code", "performance_degradation", "security_shortcut",
     "error_masking", "test_avoidance"}

Severity == {"CRITICAL", "WARNING", "INFO"}

(***************************************************************************)
(* impact_assessor.py: ImpactAssessor.                                     *)
(***************************************************************************)
PATTERN_WEIGHTS ==
    [silent_fallback |->
        [performance |-> 10, security |-> 30, maintainability |-> 50, debug_hours |-> 8],
     warning_suppression |->
        [performance |-> 5, security |-> 20, maintainability |-> 40, debug_hours |-> 4],
     assumption_bypass |->
        [performance |-> 10, security |-> 40, maintainability |-> 30, debug_hours |-> 6],
     duplicate_code |->
        [performance |-> 15, security |-> 10, maintainability |-> 60, debug_hours |-> 12],
     performance_degradation |->
        [performance |-> 70, security |-> 5, maintainability |-> 20, debug_hours |-> 16],
     security_shortcut |->
        [performance |-> 5, security |-> 95, maintainability |-> 30, debug_hours |-> 24],
     error_masking |->
        [performance |-> 10, security |-> 15, maintainability |-> 45, debug_hours |-> 10],
     test_avoidance |->
        [performance |-> 5, security |-> 10, maintainability |-> 50, debug_hours |-> 20]]

\* PATTERN_WEIGHTS.get(pattern_type, default)
WeightsOf(pattern_type) ==
    IF pattern_type \in DOMAIN PATTERN_WEIGHTS
    THEN PATTERN_WEIGHTS[pattern_type]
    ELSE [performance |-> 10, security |-> 10, maintainability |-> 10, debug_hours |-> 4]

\* Mutant: the CRITICAL and INFO multipliers swapped.
SEVERITY_MULTIPLIERS_Swapped(severity) ==
    CASE severity = "CRITICAL" -> 1
      [] severity = "WARNING"  -> 2
      [] severity = "INFO"     -> 4

\* SEVERITY_MULTIPLIERS, in halves: 2.0, 1.0, 0.5.
SEVERITY_MULTIPLIERS(severity) ==
    CASE severity = "CRITICAL" -> 4
      [] severity = "WARNING"  -> 2
      [] severity = "INFO"     -> 1

\* weights[metric] * multiplier * confidence of one detection.
Contribution(detection, metric) ==
    FMulHalves(WeightsOf(detection.pattern_type)[metric]
                  * SEVERITY_MULTIPLIERS(detection.severity),
               DoubleOf(detection.confidence))

\* The accumulation loop: metric += ... over the detections, in list order.
\* RunningTotals[k + 1] is the value of the metric after k detections.
RECURSIVE RunningTotals(_, _, _)
RunningTotals(detections, metric, n) ==
    IF n = 0 THEN <<FZero>>
    ELSE LET before == RunningTotals(detections, metric, n - 1)
         IN  Append(before,
                    FAdd(before[n], Contribution(detections[n], metric)))

Accumulate(detections, metric) ==
    RunningTotals(detections, metric, Len(detections))[Len(detections) + 1]

Min(a, b) == IF a <= b THEN a ELSE b
Max(a, b) == IF a >= b THEN a ELSE b

\* Mutant: the min(100, ...) clamp left out.
NormalizeNoClamp(total, num_detections) ==
    Trunc(FDivInt(total, Max(num_detections, 1)))

\* Mutant: the value wraps around at 100 instead of saturating.
NormalizeWrap(total, num_detections) ==
    Trunc(FDivInt(total, Max(num_detections, 1))) % 100

\* Mutant: the sum is not divided by the number of detections.
NormalizeUndivided(total, num_detections) ==
    Min(100, Trunc(total))

\* min(100, int(metric / max(num_detections, 1)))
Normalize(total, num_detections) ==
    Min(100, Trunc(FDivInt(total, Max(num_detections, 1))))

\* int(performance_cost * 0.3 + security_risk * 0.4 + maintainability_debt * 0.3)
TotalScore(performance_cost, security_risk, maintainability_debt) ==
    Trunc(FAdd(FAdd(FMulInt(performance_cost, DoubleOf("0.3")),
                    FMulInt(security_risk, DoubleOf("0.4"))),
               FMulInt(maintainability_debt, DoubleOf("0.3"))))

\* Mutant: strict comparisons at the thresholds.
RiskLevelStrict(total_score, security_risk) ==
    IF total_score > 80 \/ security_risk > 90 THEN "CRITICAL"
    ELSE IF total_score > 60 \/ security_risk > 70 THEN "HIGH"
    ELSE IF total_score > 40 THEN "MEDIUM"
    ELSE "LOW"

\* if / elif / else on total_score and security_risk
RiskLevel(total_score, security_risk) ==
    IF total_score >= 80 \/ security_risk >= 90 THEN "CRITICAL"
    ELSE IF total_score >= 60 \/ security_risk >= 70 THEN "HIGH"
    ELSE IF total_score >= 40 THEN "MEDIUM"
    ELSE "LOW"

\* Mutant: the early return built from the default weights.
EmptyScoreDefaults ==
    [performance_cost |-> 10, security_risk |-> 10, maintainability_debt |-> 10,
     total_score |-> 10, estimated_debug_hours |-> 40, risk_level |-> "LOW"]

\* The ImpactScore of the early return for an empty list.
EmptyScore ==
    [performance_cost |-> 0, security_risk |-> 0, maintainability_debt |-> 0,
     total_score |-> 0, estimated_debug_hours |-> 0, risk_level |-> "LOW"]

\* Mutant: estimated_debug_hours divided by the count like the other metrics.
assess_impact_Averaged(detections) ==
    IF detections = <<>>
    THEN EmptyScore
    ELSE LET n   == Len(detections)
             pc  == Normalize(Accumulate(detections, "performance"), n)
             sr  == Normalize(Accumulate(detections, "security"), n)
             md  == Normalize(Accumulate(detections, "maintainability"), n)
             tot == TotalScore(pc, sr, md)
         IN  [performance_cost |-> pc, security_risk |-> sr,
              maintainability_debt |-> md, total_score |-> tot,
              estimated_debug_hours |->
                  RoundTenths(FDivInt(Accumulate(detections, "debug_hours"), n)),
              risk_level |-> RiskLevel(tot, sr)]

\* estimated_debug_hours is held as the number of tenths of the rounded value.
assess_impact(detections) ==
    IF detections = <<>>
    THEN EmptyScore
    ELSE LET n   == Len(detections)
             pc  == Normalize(Accumulate(detections, "performance"), n)
             sr  == Normalize(Accumulate(detections, "security"), n)
             md  == Normalize(Accumulate(detections, "maintainability"), n)
             tot == TotalScore(pc, sr, md)
         IN  [performance_cost |-> pc, security_risk |-> sr,
              maintainability_debt |-> md, total_score |-> tot,
              estimated_debug_hours |->
                  RoundTenths(Accumulate(detections, "debug_hours")),
              risk_level |-> RiskLevel(tot, sr)]

(***************************************************************************)
(* The pattern detection engine (analyzers/pattern_detector.py).           *)
(*                                                                         *)
(* An input text is a sequence of units, each a few complete lines of      *)
(* Python, joined by line ends, with or without a final line end.  The     *)
(* tables UnitLines, Spans, strip, Words, UnitParse and UnitNodes hold     *)
(* what str.split, re.finditer, str.strip, ast.parse give on these lines.  *)
(***************************************************************************)
Code(units, newline) == [units |-> units, newline |-> newline]

\* The lines of each unit.  In the line of lone_surrogate the ? stands for
\* the single character U+D800, which no codec encodes.
UnitLines(unit) ==
    CASE unit = "bare_except_inline" -> <<"try:", "    risky()", "except: pass">>
      [] unit = "exception_pass" -> <<"try:", "    risky()", "except Exception: pass">>
      [] unit = "bare_except_block" -> <<"try:", "    risky()", "except:", "    pass">>
      [] unit = "empty_except" -> <<"try:", "    risky()", "except ValueError:", "", "    pass">>
      [] unit = "return_none" -> <<"def get(d):", "    try:", "        return d.x", "    except KeyError:", "        return None">>
      [] unit = "def_plain" -> <<"def load(path):", "    return open(path)">>
      [] unit = "def_nested" -> <<"def outer(a):", "    def inner(b):", "        return b", "    return inner">>
      [] unit = "def_checked" -> <<"def safe(v):", "    if v is None:", "        return 0", "    return v">>
      [] unit = "eval_call" -> <<"eval(data)">>
      [] unit = "ignore_warnings" -> <<"warnings.filterwarnings(\"ignore\")">>
      [] unit = "nested_loops" -> <<"for i in rows:", "    for j in cols:", "        fetch(i, j)">>
      [] unit = "generic_raise" -> <<"raise Exception(\"Error\")">>
      [] unit = "skipped_test" -> <<"@pytest.mark.skip", "def test_x():", "    pass">>
      [] unit = "broken_def" -> <<"def broken(:">>
      [] unit = "lone_surrogate" -> <<"blob = '?'">>
      [] unit = "block" -> <<"alpha = compute(1)", "beta = compute(2)", "gamma = compute(3)", "delta = compute(4)", "epsilon = compute(5)", "zeta = compute(6)", "eta = compute(7)", "theta = compute(8)", "iota = compute(9)", "kappa = compute(10)", "lambda_ = compute(11)", "omega = compute(12)">>
      [] unit = "spacer_one" -> <<"spacer_one = 1">>
      [] unit = "spacer_two" -> <<"spacer_two = 2">>
      [] unit = "tiny_clean" -> <<"x = 1">>
      [] unit = "tiny_def" -> <<"def f(a): pass">>
      [] unit = "def_noargs" -> <<"def g(): pass">>
      [] unit = "def_varargs" -> <<"def gather(*items):", "    return items">>
      [] unit = "def_async" -> <<"async def pull(src):", "    return src">>
      [] unit = "def_posonly" -> <<"def pos(x, /, y):", "    return y">>

\* [(m.start(), m.end()) for m in re.finditer(pattern, line, flags)] for the
\* patterns of the detectors and for the fragments of those patterns whose
\* match can run over a line end; <<>> where there is no match.
Spans(pattern, line) ==
    CASE pattern = "except\\s*:\\s*pass" /\ line = "except: pass" -> <<<<0, 12>>>>
      [] pattern = "except\\s*:\\s*$" /\ line = "except:" -> <<<<0, 7>>>>
      [] pattern = "^\\s*pass" /\ line = "    pass" -> <<<<0, 8>>>>
      [] pattern = "except\\s+Exception\\s*:\\s*pass" /\ line = "except Exception: pass" -> <<<<0, 22>>>>
      [] pattern = "except\\s+\\w+\\s*:\\s*$" /\ line = "except ValueError:" -> <<<<0, 18>>>>
      [] pattern = "except\\s+\\w+\\s*:\\s*$" /\ line = "    except KeyError:" -> <<<<4, 20>>>>
      [] pattern = "^\\s*$" /\ line = "" -> <<<<0, 0>>>>
      [] pattern = "except.*?:\\s*$" /\ line = "except:" -> <<<<0, 7>>>>
      [] pattern = "except.*?:\\s*$" /\ line = "except ValueError:" -> <<<<0, 18>>>>
      [] pattern = "except.*?:\\s*$" /\ line = "    except KeyError:" -> <<<<4, 20>>>>
      [] pattern = "^\\s*return\\s+None\\s*$" /\ line = "        return None" -> <<<<0, 19>>>>
      [] pattern = "warnings\\.filterwarnings\\([\"\\']ignore[\"\\']\\)" /\ line = "warnings.filterwarnings(\"ignore\")" -> <<<<0, 33>>>>
      [] pattern = "for\\s+\\w+\\s+in" /\ line = "for i in rows:" -> <<<<0, 8>>>>
      [] pattern = "for\\s+\\w+\\s+in" /\ line = "    for j in cols:" -> <<<<4, 12>>>>
      [] pattern = ":\\s*$" /\ line = "try:" -> <<<<3, 4>>>>
      [] pattern = ":\\s*$" /\ line = "except:" -> <<<<6, 7>>>>
      [] pattern = ":\\s*$" /\ line = "except ValueError:" -> <<<<17, 18>>>>
      [] pattern = ":\\s*$" /\ line = "def get(d):" -> <<<<10, 11>>>>
      [] pattern = ":\\s*$" /\ line = "    try:" -> <<<<7, 8>>>>
      [] pattern = ":\\s*$" /\ line = "    except KeyError:" -> <<<<19, 20>>>>
      [] pattern = ":\\s*$" /\ line = "def load(path):" -> <<<<14, 15>>>>
      [] pattern = ":\\s*$" /\ line = "def outer(a):" -> <<<<12, 13>>>>
      [] pattern = ":\\s*$" /\ line = "    def inner(b):" -> <<<<16, 17>>>>
      [] pattern = ":\\s*$" /\ line = "def safe(v):" -> <<<<11, 12>>>>
      [] pattern = ":\\s*$" /\ line = "    if v is None:" -> <<<<16, 17>>>>
      [] pattern = ":\\s*$" /\ line = "for i in rows:" -> <<<<13, 14>>>>
      [] pattern = ":\\s*$" /\ line = "    for j in cols:" -> <<<<17, 18>>>>
      [] pattern = ":\\s*$" /\ line = "def test_x():" -> <<<<12, 13>>>>
      [] pattern = ":\\s*$" /\ line = "def broken(:" -> <<<<11, 12>>>>
      [] pattern = ":\\s*$" /\ line = "def gather(*items):" -> <<<<18, 19>>>>
      [] pattern = ":\\s*$" /\ line = "async def pull(src):" -> <<<<19, 20>>>>
      [] pattern = ":\\s*$" /\ line = "def pos(x, /, y):" -> <<<<16, 17>>>>
      [] pattern = "for\\s+" /\ line = "for i in rows:" -> <<<<0, 4>>>>
      [] pattern = "for\\s+" /\ line = "    for j in cols:" -> <<<<4, 8>>>>
      [] pattern = "(requests\\.|http\\.|fetch\\(|get\\()" /\ line = "def get(d):" -> <<<<4, 8>>>>
      [] pattern = "(requests\\.|http\\.|fetch\\(|get\\()" /\ line = "        fetch(i, j)" -> <<<<8, 14>>>>
      [] pattern = "eval\\(" /\ line = "eval(data)" -> <<<<0, 5>>>>
      [] pattern = "raise\\s+Exception\\([\"\\']Error[\"\\']" /\ line = "raise Exception(\"Error\")" -> <<<<0, 23>>>>
      [] pattern = "@pytest\\.mark\\.skip" /\ line = "@pytest.mark.skip" -> <<<<0, 17>>>>
      [] OTHER -> <<>>

\* line.strip()
strip(line) ==
    CASE line = "    risky()" -> "risky()"
      [] line = "    pass" -> "pass"
      [] line = "    try:" -> "try:"
      [] line = "        return d.x" -> "return d.x"
      [] line = "    except KeyError:" -> "except KeyError:"
      [] line = "        return None" -> "return None"
      [] line = "    return open(path)" -> "return open(path)"
      [] line = "    def inner(b):" -> "def inner(b):"
      [] line = "        return b" -> "return b"
      [] line = "    return inner" -> "return inner"
      [] line = "    if v is None:" -> "if v is None:"
      [] line = "        return 0" -> "return 0"
      [] line = "    return v" -> "return v"
      [] line = "    for j in cols:" -> "for j in cols:"
      [] line = "        fetch(i, j)" -> "fetch(i, j)"
      [] line = "    return items" -> "return items"
      [] line = "    return src" -> "return src"
      [] line = "    return y" -> "return y"
      [] OTHER -> line

\* line.split(): the runs of characters that are not whitespace
Words(line) ==
    CASE line = "try:" -> <<"try:">>
      [] line = "    risky()" -> <<"risky()">>
      [] line = "except: pass" -> <<"except:", "pass">>
      [] line = "except Exception: pass" -> <<"except", "Exception:", "pass">>
      [] line = "except:" -> <<"except:">>
      [] line = "    pass" -> <<"pass">>
      [] line = "except ValueError:" -> <<"except", "ValueError:">>
      [] line = "" -> <<>>
      [] line = "def get(d):" -> <<"def", "get(d):">>
      [] line = "    try:" -> <<"try:">>
      [] line = "        return d.x" -> <<"return", "d.x">>
      [] line = "    except KeyError:" -> <<"except", "KeyError:">>
      [] line = "        return None" -> <<"return", "None">>
      [] line = "def load(path):" -> <<"def", "load(path):">>
      [] line = "    return open(path)" -> <<"return", "open(path)">>
      [] line = "def outer(a):" -> <<"def", "outer(a):">>
      [] line = "    def inner(b):" -> <<"def", "inner(b):">>
      [] line = "        return b" -> <<"return", "b">>
      [] line = "    return inner" -> <<"return", "inner">>
      [] line = "def safe(v):" -> <<"def", "safe(v):">>
      [] line = "    if v is None:" -> <<"if", "v", "is", "None:">>
      [] line = "        return 0" -> <<"return", "0">>
      [] line = "    return v" -> <<"return", "v">>
      [] line = "eval(data)" -> <<"eval(data)">>
      [] line = "warnings.filterwarnings(\"ignore\")" -> <<"warnings.filterwarnings(\"ignore\")">>
      [] line = "for i in rows:" -> <<"for", "i", "in", "rows:">>
      [] line = "    for j in cols:" -> <<"for", "j", "in", "cols:">>
      [] line = "        fetch(i, j)" -> <<"fetch(i,", "j)">>
      [] line = "raise Exception(\"Error\")" -> <<"raise", "Exception(\"Error\")">>
      [] line = "@pytest.mark.skip" -> <<"@pytest.mark.skip">>
      [] line = "def test_x():" -> <<"def", "test_x():">>
      [] line = "def broken(:" -> <<"def", "broken(:">>
      [] line = "blob = '?'" -> <<"blob", "=", "'?'">>
      [] line = "alpha = compute(1)" -> <<"alpha", "=", "compute(1)">>
      [] line = "beta = compute(2)" -> <<"beta", "=", "compute(2)">>
      [] line = "gamma = compute(3)" -> <<"gamma", "=", "compute(3)">>
      [] line = "delta = compute(4)" -> <<"delta", "=", "compute(4)">>
      [] line = "epsilon = compute(5)" -> <<"epsilon", "=", "compute(5)">>
      [] line = "zeta = compute(6)" -> <<"zeta", "=", "compute(6)">>
      [] line = "eta = compute(7)" -> <<"eta", "=", "compute(7)">>
      [] line = "theta = compute(8)" -> <<"theta", "=", "compute(8)">>
      [] line = "iota = compute(9)" -> <<"iota", "=", "compute(9)">>
      [] line = "kappa = compute(10)" -> <<"kappa", "=", "compute(10)">>
      [] line = "lambda_ = compute(11)" -> <<"lambda_", "=", "compute(11)">>
      [] line = "omega = compute(12)" -> <<"omega", "=", "compute(12)">>
      [] line = "spacer_one = 1" -> <<"spacer_one", "=", "1">>
      [] line = "spacer_two = 2" -> <<"spacer_two", "=", "2">>
      [] line = "x = 1" -> <<"x", "=", "1">>
      [] line = "def f(a): pass" -> <<"def", "f(a):", "pass">>
      [] line = "def g(): pass" -> <<"def", "g():", "pass">>
      [] line = "def gather(*items):" -> <<"def", "gather(*items):">>
      [] line = "    return items" -> <<"return", "items">>
      [] line = "async def pull(src):" -> <<"async", "def", "pull(src):">>
      [] line = "    return src" -> <<"return", "src">>
      [] line = "def pos(x, /, y):" -> <<"def", "pos(x,", "/,", "y):">>
      [] line = "    return y" -> <<"return", "y">>

\* 'log' in line.lower(): true of no line of the units
HasLog(line) ==
    line \in {}

\* What ast.parse does on a text that contains the unit: "ok", or the
\* exception it raises.
UnitParse(unit) ==
    CASE unit = "bare_except_inline" -> "ok"
      [] unit = "exception_pass" -> "ok"
      [] unit = "bare_except_block" -> "ok"
      [] unit = "empty_except" -> "ok"
      [] unit = "return_none" -> "ok"
      [] unit = "def_plain" -> "ok"
      [] unit = "def_nested" -> "ok"
      [] unit = "def_checked" -> "ok"
      [] unit = "eval_call" -> "ok"
      [] unit = "ignore_warnings" -> "ok"
      [] unit = "nested_loops" -> "ok"
      [] unit = "generic_raise" -> "ok"
      [] unit = "skipped_test" -> "ok"
      [] unit = "broken_def" -> "SyntaxError"
      [] unit = "lone_surrogate" -> "UnicodeEncodeError"
      [] unit = "block" -> "ok"
      [] unit = "spacer_one" -> "ok"
      [] unit = "spacer_two" -> "ok"
      [] unit = "tiny_clean" -> "ok"
      [] unit = "tiny_def" -> "ok"
      [] unit = "def_noargs" -> "ok"
      [] unit = "def_varargs" -> "ok"
      [] unit = "def_async" -> "ok"
      [] unit = "def_posonly" -> "ok"

\* The compound statements of the unit's syntax tree in source order, with
\* lineno and col_offset as ast gives them and args = node.args.args.
UnitNodes(unit) ==
    CASE unit = "bare_except_inline" ->
         << [kind |-> "Try", parent |-> 0, lineno |-> 1, col_offset |-> 0, name |-> "", args |-> <<>>],
            [kind |-> "ExceptHandler", parent |-> 1, lineno |-> 3, col_offset |-> 0, name |-> "", args |-> <<>>] >>
      [] unit = "exception_pass" ->
         << [kind |-> "Try", parent |-> 0, lineno |-> 1, col_offset |-> 0, name |-> "", args |-> <<>>],
            [kind |-> "ExceptHandler", parent |-> 1, lineno |-> 3, col_offset |-> 0, name |-> "", args |-> <<>>] >>
      [] unit = "bare_except_block" ->
         << [kind |-> "Try", parent |-> 0, lineno |-> 1, col_offset |-> 0, name |-> "", args |-> <<>>],
            [kind |-> "ExceptHandler", parent |-> 1, lineno |-> 3, col_offset |-> 0, name |-> "", args |-> <<>>] >>
      [] unit = "empty_except" ->
         << [kind |-> "Try", parent |-> 0, lineno |-> 1, col_offset |-> 0, name |-> "", args |-> <<>>],
            [kind |-> "ExceptHandler", parent |-> 1, lineno |-> 3, col_offset |-> 0, name |-> "", args |-> <<>>] >>
      [] unit = "return_none" ->
         << [kind |-> "FunctionDef", parent |-> 0, lineno |-> 1, col_offset |-> 0, name |-> "get", args |-> <<"d">>],
            [kind |-> "Try", parent |-> 1, lineno |-> 2, col_offset |-> 4, name |-> "", args |-> <<>>],
            [kind |-> "ExceptHandler", parent |-> 2, lineno |-> 4, col_offset |-> 4, name |-> "", args |-> <<>>] >>
      [] unit = "def_plain" ->
         << [kind |-> "FunctionDef", parent |-> 0, lineno |-> 1, col_offset |-> 0, name |-> "load", args |-> <<"path">>] >>
      [] unit = "def_nested" ->
         << [kind |-> "FunctionDef", parent |-> 0, lineno |-> 1, col_offset |-> 0, name |-> "outer", args |-> <<"a">>],
            [kind |-> "FunctionDef", parent |-> 1, lineno |-> 2, col_offset |-> 4, name |-> "inner", args |-> <<"b">>] >>
      [] unit = "def_checked" ->
         << [kind |-> "FunctionDef", parent |-> 0, lineno |-> 1, col_offset |-> 0, name |-> "safe", args |-> <<"v">>],
            [kind |-> "If", parent |-> 1, lineno |-> 2, col_offset |-> 4, name |-> "", args |-> <<>>] >>
      [] unit = "nested_loops" ->
         << [kind |-> "For", parent |-> 0, lineno |-> 1, col_offset |-> 0, name |-> "", args |-> <<>>],
            [kind |-> "For", parent |-> 1, lineno |-> 2, col_offset |-> 4, name |-> "", args |-> <<>>] >>
      [] unit = "skipped_test" ->
         << [kind |-> "FunctionDef", parent |-> 0, lineno |-> 2, col_offset |-> 0, name |-> "test_x", args |-> <<>>] >>
      [] unit = "tiny_def" ->
         << [kind |-> "FunctionDef", parent |-> 0, lineno |-> 1, col_offset |-> 0, name |-> "f", args |-> <<"a">>] >>
      [] unit = "def_noargs" ->
         << [kind |-> "FunctionDef", parent |-> 0, lineno |-> 1, col_offset |-> 0, name |-> "g", args |-> <<>>] >>
      [] unit = "def_varargs" ->
         << [kind |-> "FunctionDef", parent |-> 0, lineno |-> 1, col_offset |-> 0, name |-> "gather", args |-> <<>>] >>
      [] unit = "def_async" ->
         << [kind |-> "AsyncFunctionDef", parent |-> 0, lineno |-> 1, col_offset |-> 0, name |-> "pull", args |-> <<"src">>] >>
      [] unit = "def_posonly" ->
         << [kind |-> "FunctionDef", parent |-> 0, lineno |-> 1, col_offset |-> 0, name |-> "pos", args |-> <<"y">>] >>
      [] OTHER -> <<>>

\* Every parameter the definition of that name declares, in the order of
\* its signature: posonlyargs, args, vararg, kwonlyargs, kwarg.
Parameters(name) ==
    CASE name = "get" -> <<"d">>
      [] name = "load" -> <<"path">>
      [] name = "outer" -> <<"a">>
      [] name = "inner" -> <<"b">>
      [] name = "safe" -> <<"v">>
      [] name = "test_x" -> <<>>
      [] name = "f" -> <<"a">>
      [] name = "g" -> <<>>
      [] name = "gather" -> <<"items">>
      [] name = "pull" -> <<"src">>
      [] name = "pos" -> <<"x", "y">>

RECURSIVE Flatten(_)
Flatten(units) ==
    IF units = <<>> THEN <<>>
    ELSE UnitLines(Head(units)) \o Flatten(Tail(units))

\* lines = code.split('\n')
split(code) ==
    LET body == Flatten(code.units)
    IN  (IF body = <<>> THEN <<"">> ELSE body)
            \o (IF code.newline THEN <<"">> ELSE <<>>)

RECURSIVE Characters(_)
Characters(lines) ==
    IF lines = <<>> THEN 0 ELSE Len(Head(lines)) + Characters(Tail(lines))

\* len(code): the characters of the lines and the line ends between them
len(code) ==
    LET lines == split(code)
    IN  Characters(lines) + Len(lines) - 1

\* The offset in the text at which each line begins.
RECURSIVE LineStarts(_, _, _)
LineStarts(lines, k, at) ==
    IF k > Len(lines) THEN <<>>
    ELSE <<at>> \o LineStarts(lines, k + 1, at + Len(lines[k]) + 1)

\* code[:start].count('\n') + 1
LineNumber(starts, start) ==
    Cardinality({j \in 2 .. Len(starts) : starts[j] <= start}) + 1

\* Detection.  rule and start are not fields of the dataclass: they record
\* which rule of its detector produced the finding and the offset in the
\* text at which the match (or the definition) begins.  The impact text is
\* left out; it is a constant of the rule, as the description is.
Detection(pattern_type, severity, line_number, code_snippet, description, recommendation, confidence, rule, start) ==
    [pattern_type |-> pattern_type, severity |-> severity,
     line_number |-> line_number, code_snippet |-> code_snippet,
     description |-> description, recommendation |-> recommendation,
     confidence |-> confidence, rule |-> rule, start |-> start]

(***************************************************************************)
(* Regular expressions.  \s matches a line end too, so a match of a rule   *)
(* either lies within one line (whole) or begins with head at the end of   *)
(* a line and, after blank lines only, ends with tail at the beginning of  *)
(* a later line.                                                           *)
(***************************************************************************)
Regex(whole, head, tail) == [whole |-> whole, head |-> head, tail |-> tail]

Blank(line) == Spans("^\\s*$", line) # <<>>

\* The line on which a match beginning with head on line k ends, 0 if none.
TailLine(tail, lines, k) ==
    LET ends == {j \in (k + 1) .. Len(lines) :
                    /\ Spans(tail, lines[j]) # <<>>
                    /\ \A i \in (k + 1) .. (j - 1) : Blank(lines[i])}
    IN  IF ends = {} THEN 0 ELSE CHOOSE j \in ends : \A i \in ends : j <= i

RECURSIVE SpanStarts(_, _, _, _)
SpanStarts(spans, at, log, i) ==
    IF i > Len(spans) THEN <<>>
    ELSE <<[start |-> at + spans[i][1], log |-> log]>>
             \o SpanStarts(spans, at, log, i + 1)

\* re.finditer(pattern, code, flags): the matches in text order, each with
\* the offset of its start and whether 'log' occurs in the matched text.
RECURSIVE finditer(_, _, _, _)
finditer(regex, lines, starts, k) ==
    IF k > Len(lines) THEN <<>>
    ELSE LET head == Spans(regex.head, lines[k])
             j    == IF head = <<>> THEN 0 ELSE TailLine(regex.tail, lines, k)
             here == SpanStarts(Spans(regex.whole, lines[k]), starts[k],
                                HasLog(lines[k]), 1)
             over == IF j = 0 THEN <<>>
                     ELSE <<[start |-> starts[k] + head[1][1],
                             log |-> HasLog(lines[k]) \/ HasLog(lines[j])]>>
         IN  here \o over \o finditer(regex, lines, starts, k + 1)

\* Every match of a fragment in the text, as <<line, start column, end column>>.
RECURSIVE Tokens(_, _, _)
Tokens(pattern, lines, k) ==
    IF k > Len(lines) THEN <<>>
    ELSE LET spans == Spans(pattern, lines[k])
         IN  (CASE Len(spans) = 0 -> <<>>
                [] Len(spans) = 1 -> <<<<k, spans[1][1], spans[1][2]>>>>
                [] OTHER -> <<<<k, spans[1][1], spans[1][2]>>,
                              <<k, spans[2][1], spans[2][2]>>>>)
             \o Tokens(pattern, lines, k + 1)

\* re.finditer of  first.*?:\s*\n.*?last  with re.DOTALL: from an occurrence
\* of first, lazily to the first colon that ends a line at or after it,
\* then lazily to the first occurrence of last on a later line; the scan
\* resumes behind that occurrence.
RECURSIVE finditer_dotall(_, _, _, _, _, _)
finditer_dotall(first, last, lines, starts, line, col) ==
    LET begins == SelectSeq(Tokens(first, lines, 1),
                      LAMBDA t : t[1] > line \/ (t[1] = line /\ t[2] >= col))
    IN  IF begins = <<>> THEN <<>>
        ELSE LET b == Head(begins)
                 colons == {m \in b[1] .. (Len(lines) - 1) :
                               LET c == Spans(":\\s*$", lines[m])
                               IN  c # <<>> /\ (m > b[1] \/ c[1][1] >= b[3])}
             IN  IF colons = {} THEN <<>>
                 ELSE LET m == CHOOSE x \in colons : \A y \in colons : x <= y
                          ends == SelectSeq(Tokens(last, lines, 1),
                                            LAMBDA t : t[1] > m)
                      IN  IF ends = <<>> THEN <<>>
                          ELSE <<[start |-> starts[b[1]] + b[2], log |-> FALSE]>>
                                   \o finditer_dotall(first, last, lines, starts,
                                                      Head(ends)[1], Head(ends)[3])

\* One finding per match, in match order (the body of a "for match in
\* re.finditer(...)" loop).  A rule with an empty code_snippet takes the
\* stripped line of the match.
RECURSIVE Emit(_, _, _, _, _, _)
Emit(pattern_type, index, rule, matches, lines, i) ==
    IF i > Len(matches) THEN <<>>
    ELSE LET starts   == LineStarts(lines, 1, 0)
             line_num == LineNumber(starts, matches[i].start)
             snippet  == IF rule.code_snippet # "" THEN rule.code_snippet
                         ELSE IF line_num <= Len(lines)
                              THEN strip(lines[line_num]) ELSE ""
             rest     == Emit(pattern_type, index, rule, matches, lines, i + 1)
         IN  IF rule.unless_log /\ matches[i].log THEN rest
             ELSE <<Detection(pattern_type, rule.severity, line_num, snippet,
                              rule.description, rule.recommendation,
                              rule.confidence, index, matches[i].start)>> \o rest

Rule(severity, description, recommendation, confidence) ==
    [severity |-> severity, description |-> description,
     recommendation |-> recommendation, confidence |-> confidence,
     code_snippet |-> "", unless_log |-> FALSE]

\* The findings of one rule of a text detector.
Matches(pattern_type, index, regex, rule, lines) ==
    Emit(pattern_type, index, rule,
         finditer(regex, lines, LineStarts(lines, 1, 0), 1), lines, 1)

\* _detect_silent_fallback
detect_silent_fallback(code, lines) ==
    LET pattern1 == Regex("except\\s*:\\s*pass", "except\\s*:\\s*$", "^\\s*pass")
        pattern2 == Regex("except\\s+Exception\\s*:\\s*pass",
                          "except\\s+Exception\\s*:\\s*$", "^\\s*pass")
        pattern3 == Regex("", "except\\s+\\w+\\s*:\\s*$", "^\\s*$")
        pattern4 == Regex("except.*?:\\s*return\\s+None\\s*$",
                          "except.*?:\\s*$", "^\\s*return\\s+None\\s*$")
    IN  Matches("silent_fallback", 1, pattern1,
                Rule("CRITICAL",
                     "Bare except: pass silences ALL exceptions including critical ones",
                     "Add logging: logger.exception('Error in X') OR catch specific exceptions",
                     "1.0"), lines)
        \o Matches("silent_fallback", 2, pattern2,
                Rule("WARNING", "Exception silenced without logging",
                     "Log the exception: logger.warning(f'Error: {e}', exc_info=True)",
                     "0.95"), lines)
        \o Matches("silent_fallback", 3, pattern3,
                Rule("WARNING", "Empty except block - error swallowed",
                     "Add at minimum: logger.exception('Context message')",
                     "0.9"), lines)
        \o Matches("silent_fallback", 4, pattern4,
                [Rule("WARNING", "Silent None return on exception",
                      "Log before returning OR raise a custom exception",
                      "0.85") EXCEPT !.unless_log = TRUE], lines)

\* The findings of the rules index.. of a list of (pattern, description,
\* recommendation) rules that share severity and confidence.
RECURSIVE ForEachPattern(_, _, _, _, _, _)
ForEachPattern(pattern_type, severity, confidence, patterns, lines, index) ==
    IF index > Len(patterns) THEN <<>>
    ELSE Matches(pattern_type, index, Regex(patterns[index][1], "", ""),
                 Rule(severity, patterns[index][2], patterns[index][3], confidence),
                 lines)
         \o ForEachPattern(pattern_type, severity, confidence, patterns, lines,
                           index + 1)

\* _detect_warning_suppression
detect_warning_suppression(code, lines) ==
    LET recommendation ==
            "Suppress specific warnings only: warnings.filterwarnings('ignore', category=SpecificWarning)"
        patterns == <<
            <<"warnings\\.filterwarnings\\([\"\\']ignore[\"\\']\\)",
              "warnings.filterwarnings('ignore') suppresses ALL warnings",
              recommendation>>,
            <<"-W\\s+ignore",
              "Command line -W ignore flag suppresses warnings", recommendation>>,
            <<"@pytest\\.mark\\.filterwarnings\\([\"\\']ignore",
              "pytest filterwarnings(ignore) hides test warnings", recommendation>>,
            <<"import\\s+warnings.*?warnings\\.simplefilter\\([\"\\']ignore[\"\\']\\)",
              "warnings.simplefilter('ignore') globally suppresses warnings",
              recommendation>> >>
    IN  ForEachPattern("warning_suppression", "WARNING", "0.95", patterns, lines, 1)

(***************************************************************************)
(* The syntax tree.  Of the nodes of the tree the model keeps the compound *)
(* statements (the only nodes that can be, or can contain, a FunctionDef   *)
(* or an If), each with the index of its parent, 0 for the Module.         *)
(***************************************************************************)
RECURSIVE TreeFrom(_, _, _)
TreeFrom(units, line_offset, node_offset) ==
    IF units = <<>> THEN <<>>
    ELSE LET nodes == UnitNodes(Head(units))
             moved == [i \in 1 .. Len(nodes) |->
                          [nodes[i] EXCEPT
                              !.parent = IF @ = 0 THEN 0 ELSE @ + node_offset,
                              !.lineno = @ + line_offset]]
         IN  moved \o TreeFrom(Tail(units),
                               line_offset + Len(UnitLines(Head(units))),
                               node_offset + Len(nodes))

\* ast.parse(code): the exception it raises ("" if none) and the tree.  The
\* text is encoded before it is parsed, so a character that cannot be
\* encoded fails first.
ast_parse(code) ==
    LET outcomes == {UnitParse(code.units[i]) : i \in 1 .. Len(code.units)}
    IN  IF "UnicodeEncodeError" \in outcomes
        THEN [raised |-> "UnicodeEncodeError", body |-> <<>>]
        ELSE IF "SyntaxError" \in outcomes
        THEN [raised |-> "SyntaxError", body |-> <<>>]
        ELSE [raised |-> "", body |-> TreeFrom(code.units, 0, 0)]

\* ast.iter_child_nodes(node), in source order
Children(nodes, parent) ==
    SelectSeq([i \in 1 .. Len(nodes) |-> i], LAMBDA i : nodes[i].parent = parent)

\* ast.walk: a queue, breadth first
RECURSIVE walk(_, _)
walk(nodes, todo) ==
    IF todo = <<>> THEN <<>>
    ELSE <<Head(todo)>> \o walk(nodes, Tail(todo) \o Children(nodes, Head(todo)))

RECURSIVE Join(_, _)
Join(sep, names) ==
    IF names = <<>> THEN ""
    ELSE IF Len(names) = 1 THEN names[1]
    ELSE names[1] \o sep \o Join(sep, Tail(names))

\* The loop with the test on param_names left out.
RECURSIVE VisitNodesAnyFunction(_, _, _, _)
VisitNodesAnyFunction(nodes, order, lines, i) ==
    IF i > Len(order) THEN <<>>
    ELSE LET n == order[i]
             rest == VisitNodesAnyFunction(nodes, order, lines, i + 1)
         IN  IF n = 0 \/ nodes[n].kind # "FunctionDef" THEN rest
             ELSE LET node == nodes[n]
                      inside == walk(nodes, <<n>>)
                      has_validation ==
                          \E c \in 1 .. Len(inside) : nodes[inside[c]].kind = "If"
                  IN  IF ~has_validation
                      THEN <<Detection("assumption_bypass", "WARNING", node.lineno,
                                 "def " \o node.name \o "(" \o Join(", ", node.args) \o ")",
                                 "Function uses parameters without validation",
                                 "Add validation", "0.7", 1,
                                 LineStarts(lines, 1, 0)[node.lineno] + node.col_offset)>>
                               \o rest
                      ELSE rest

\* The loop over ast.walk(tree) of _detect_assumption_bypass.
RECURSIVE VisitNodes(_, _, _, _)
VisitNodes(nodes, order, lines, i) ==
    IF i > Len(order) THEN <<>>
    ELSE LET n == order[i]
             rest == VisitNodes(nodes, order, lines, i + 1)
         IN  IF n = 0 \/ nodes[n].kind # "FunctionDef" THEN rest
             ELSE LET node == nodes[n]
                      param_names == node.args
                      inside == walk(nodes, <<n>>)
                      has_validation ==
                          \E c \in 1 .. Len(inside) : nodes[inside[c]].kind = "If"
                  IN  IF param_names # <<>> /\ ~has_validation /\ Len(param_names) > 0
                      THEN <<Detection("assumption_bypass", "WARNING", node.lineno,
                                 "def " \o node.name \o "(" \o Join(", ", param_names) \o ")",
                                 "Function uses parameters without validation",
                                 "Add validation: if " \o param_names[1] \o " is None: raise ValueError(...)",
                                 "0.7", 1,
                                 LineStarts(lines, 1, 0)[node.lineno] + node.col_offset)>>
                               \o rest
                      ELSE rest

\* _detect_assumption_bypass: the findings it appends.  SyntaxError is
\* caught (no finding); any other exception of ast.parse is not.
detect_assumption_bypass(code, lines) ==
    LET tree == ast_parse(code)
    IN  IF tree.raised # "" THEN <<>>
        ELSE VisitNodes(tree.body, walk(tree.body, <<0>>), lines, 1)

\* The exception _detect_assumption_bypass lets through, "" if none.
assumption_bypass_raises(code) ==
    LET tree == ast_parse(code)
    IN  IF tree.raised = "SyntaxError" THEN "" ELSE tree.raised

block_size == 10

\* re.sub(r'\s+', ' ', block).strip() of the window lines[i:i+block_size],
\* as the sequence of its words: two windows have the same normalized text
\* exactly when they have the same words.
RECURSIVE Normalized(_, _, _)
Normalized(lines, i, n) ==
    IF n = 0 THEN <<>>
    ELSE Words(lines[i + 1]) \o Normalized(lines, i + 1, n - 1)

\* len(normalized): the words and one space between neighbours
RECURSIVE WordChars(_)
WordChars(words) ==
    IF words = <<>> THEN 0 ELSE Len(Head(words)) + WordChars(Tail(words))

NormalizedLen(words) ==
    IF words = <<>> THEN 0 ELSE WordChars(words) + Len(words) - 1

\* The loop of _detect_duplicate_code from window i on; seen_blocks is the
\* map built so far, a sequence of [key, line] entries.
RECURSIVE DuplicateScan(_, _, _, _)
DuplicateScan(lines, starts, i, seen_blocks) ==
    IF i >= Len(lines) - block_size THEN <<>>
    ELSE LET normalized == Normalized(lines, i, block_size)
             known == {e \in 1 .. Len(seen_blocks) : seen_blocks[e].key = normalized}
         IN  IF NormalizedLen(normalized) > 50
             THEN IF known # {}
                  THEN <<Detection("duplicate_code", "WARNING", i + 1,
                             "Duplicate block at line " \o ToString(i + 1)
                                 \o " (also at "
                                 \o ToString(seen_blocks[CHOOSE e \in known : TRUE].line)
                                 \o ")",
                             ToString(block_size) \o "-line duplicate code block",
                             "Extract to function or refactor common logic",
                             "0.9", 1, starts[i + 1])>>
                           \o DuplicateScan(lines, starts, i + 1, seen_blocks)
                  ELSE DuplicateScan(lines, starts, i + 1,
                           Append(seen_blocks, [key |-> normalized, line |-> i + 1]))
             ELSE DuplicateScan(lines, starts, i + 1, seen_blocks)

\* _detect_duplicate_code: seen_blocks = {} is local to the call
detect_duplicate_code(code, lines) ==
    DuplicateScan(lines, LineStarts(lines, 1, 0), 0, <<>>)

\* _detect_performance_degradation
detect_performance_degradation(code, lines) ==
    LET starts == LineStarts(lines, 1, 0)
        nested == finditer_dotall("for\\s+\\w+\\s+in", "for\\s+\\w+\\s+in",
                                  lines, starts, 1, 0)
        api == finditer_dotall("for\\s+", "(requests\\.|http\\.|fetch\\(|get\\()",
                               lines, starts, 1, 0)
    IN  Emit("performance_degradation", 1,
             [Rule("INFO", "Potential O(n^2) complexity",
                   "Consider using dict lookup (O(1)) or set operations instead",
                   "0.6") EXCEPT !.code_snippet = "Nested for loops detected"],
             nested, lines, 1)
        \o Emit("performance_degradation", 2,
             [Rule("WARNING", "Repeated API calls without batching",
                   "Batch API calls or use bulk endpoints",
                   "0.8") EXCEPT !.code_snippet = "API call inside loop"],
             api, lines, 1)

\* _detect_security_shortcuts (the patterns are matched with re.IGNORECASE)
detect_security_shortcuts(code, lines) ==
    LET security_patterns == <<
            <<"\\.format\\(.*SELECT.*FROM",
              "SQL injection via string formatting",
              "Use parameterized queries: cursor.execute('SELECT * FROM users WHERE id = %s', (user_id,))">>,
            <<"eval\\(",
              "eval() allows arbitrary code execution",
              "Never use eval(). Parse JSON with json.loads() or use ast.literal_eval() for literals">>,
            <<"exec\\(",
              "exec() allows arbitrary code execution",
              "Refactor to avoid exec(). Use functions, classes, or importlib instead">>,
            <<"(password|secret|api_key)\\s*=\\s*[\"\\'][^\"\\']+[\"\\']",
              "Hardcoded credentials",
              "Use environment variables: os.environ['API_KEY'] or secrets manager">> >>
    IN  ForEachPattern("security_shortcut", "CRITICAL", "0.95",
                       security_patterns, lines, 1)

\* _detect_error_masking
detect_error_masking(code, lines) ==
    LET description == "Generic error message without context"
        recommendation ==
            "Use specific exceptions: raise ValueError(f'Invalid input {x}: must be > 0')"
        generic_errors == <<
            <<"raise\\s+Exception\\([\"\\']Error[\"\\']", description, recommendation>>,
            <<"raise\\s+Exception\\([\"\\']Something went wrong[\"\\']",
              description, recommendation>>,
            <<"raise\\s+Exception\\([\"\\']Failed[\"\\']", description, recommendation>> >>
    IN  ForEachPattern("error_masking", "INFO", "0.8", generic_errors, lines, 1)

\* _detect_test_avoidance
detect_test_avoidance(code, lines) ==
    LET description == "Test marked as skip"
        recommendation ==
            "Fix the test instead of skipping. If temporary, add issue reference and deadline."
        skip_patterns == <<
            <<"@pytest\\.mark\\.skip", description, recommendation>>,
            <<"@unittest\\.skip", description, recommendation>>,
            <<"skipTest\\(", description, recommendation>> >>
    IN  ForEachPattern("test_avoidance", "WARNING", "0.9", skip_patterns, lines, 1)

\* What analyze_code has appended when _detect_assumption_bypass is entered.
BeforeParse(code) ==
    LET lines == split(code)
    IN  detect_silent_fallback(code, lines) \o detect_warning_suppression(code, lines)

\* What the detectors behind _detect_assumption_bypass append.
AfterParse(code) ==
    LET lines == split(code)
    IN  detect_duplicate_code(code, lines)
        \o detect_performance_degradation(code, lines)
        \o detect_security_shortcuts(code, lines)
        \o detect_error_masking(code, lines)
        \o detect_test_avoidance(code, lines)

\* Mutant: the security detector run before the duplicate-code detector.
AllDetectorsSecurityEarly(code) ==
    LET lines == split(code)
    IN  BeforeParse(code)
        \o detect_assumption_bypass(code, lines)
        \o detect_security_shortcuts(code, lines)
        \o detect_duplicate_code(code, lines)
        \o detect_performance_degradation(code, lines)
        \o detect_error_masking(code, lines)
        \o detect_test_avoidance(code, lines)

\* What analyze_code appends when no detector raises: the eight detectors
\* in the order of lines 69-76.
AllDetectors(code) ==
    BeforeParse(code)
        \o detect_assumption_bypass(code, split(code))
        \o AfterParse(code)

(***************************************************************************)
(* The detector object.  Lists are objects: heap holds every list created  *)
(* so far, self_detections the one SilentAlarmDetector.detections refers to, *)
(* and a caller keeps the reference analyze_code returned.                 *)
(***************************************************************************)
\* Mutant: self.detections.clear() in place of a new list.
ClearedList(lists, ref) == [lists |-> [lists EXCEPT ![ref] = <<>>], ref |-> ref]

\* self.detections = []
NewList(lists, ref) == [lists |-> Append(lists, <<>>), ref |-> Len(lists) + 1]

\* detector.analyze_code(code), recorded by its caller: the exception raised
\* ("" if none), the list returned and what it held on return.
AnalyzeCode(code) ==
    LET reset  == NewList(heap, self_detections)
        raised == assumption_bypass_raises(code)
        added  == IF raised = "" THEN AllDetectors(code) ELSE BeforeParse(code)
        filled == reset.lists[reset.ref] \o added
    IN  /\ heap' = [reset.lists EXCEPT ![reset.ref] = filled]
        /\ self_detections' = reset.ref
        /\ calls' = Append(calls,
                        [code |-> code, raised |-> raised,
                         result |-> IF raised = "" THEN reset.ref ELSE 0,
                         value |-> IF raised = "" THEN filled ELSE <<>>])
        /\ UNCHANGED <<findings, impact, report, detectors, threads, hook>>

(***************************************************************************)
(* Input texts.                                                            *)
(***************************************************************************)
GeneralUnits ==
    {"bare_except_inline", "exception_pass", "bare_except_block", "empty_except",
     "return_none", "def_plain", "def_nested", "def_checked", "eval_call",
     "ignore_warnings", "nested_loops", "generic_raise", "skipped_test",
     "broken_def", "lone_surrogate"}

\* The sequences of at most n general units.
RECURSIVE UnitSeqs(_)
UnitSeqs(n) ==
    IF n = 0 THEN {<<>>}
    ELSE LET shorter == UnitSeqs(n - 1)
         IN  shorter \cup {Append(s, u) : s \in {x \in shorter : Len(x) = n - 1},
                                          u \in GeneralUnits}

Texts == {Code(s, newline) : s \in UnitSeqs(MaxUnits), newline \in BOOLEAN}

\* Two copies of the 12-line block with unrelated code between them, and
\* possibly before the first and behind the second.
DuplicateTexts ==
    {Code(lead \o <<"block">> \o gap \o <<"block">> \o tail, newline) :
        lead \in {<<>>, <<"generic_raise">>},
        gap \in {<<"spacer_one">>, <<"eval_call">>, <<"spacer_one", "def_checked">>},
        tail \in {<<>>, <<"spacer_two">>},
        newline \in BOOLEAN}

\* Short statements and function definitions of every shape: positional,
\* none, starred, asynchronous, positional-only, validated, unparsable.
SmallUnits ==
    {"tiny_clean", "tiny_def", "def_noargs", "def_varargs", "def_async",
     "def_posonly", "def_checked", "eval_call", "broken_def"}

SmallTexts ==
    {Code(s, newline) :
        s \in {<<>>} \cup {<<u>> : u \in SmallUnits}
                     \cup {<<u, v>> : u \in SmallUnits, v \in SmallUnits},
        newline \in BOOLEAN}

Inputs == Texts \cup DuplicateTexts \cup SmallTexts

\* The texts handed to a detector object that is used more than once.
ReuseInputs ==
    {Code(<<>>, FALSE),
     Code(<<"eval_call">>, TRUE),
     Code(<<"exception_pass", "bare_except_inline">>, TRUE),
     Code(<<"def_nested", "def_plain">>, TRUE),
     Code(<<"lone_surrogate", "eval_call">>, TRUE),
     Code(<<"block", "spacer_one", "block">>, TRUE)}

(***************************************************************************)
(* generate_impact_report.  Of the text it returns the model keeps what    *)
(* varies: the ImpactScore, the lines listed per severity and the          *)
(* recommendations.                                                        *)
(***************************************************************************)
\* sum(PATTERN_WEIGHTS.get(pattern_type, {three weights of 10}).values())
WeightSum(pattern_type) ==
    IF pattern_type \in DOMAIN PATTERN_WEIGHTS
    THEN LET weights == PATTERN_WEIGHTS[pattern_type]
         IN  weights.performance + weights.security + weights.maintainability
                 + weights.debug_hours
    ELSE 10 + 10 + 10

\* The sort key of a detection, in halves (every product is exact).
SortKey(d) == SEVERITY_MULTIPLIERS(d.severity) * WeightSum(d.pattern_type)

\* Mutant: d goes in front of the entries with an equal key.
RECURSIVE InsertBeforeEqual(_, _)
InsertBeforeEqual(list, d) ==
    IF list = <<>> THEN <<d>>
    ELSE IF SortKey(Head(list)) > SortKey(d)
         THEN <<Head(list)>> \o InsertBeforeEqual(Tail(list), d)
         ELSE <<d>> \o list

\* d goes behind every entry whose key is at least its own.
RECURSIVE InsertDescending(_, _)
InsertDescending(list, d) ==
    IF list = <<>> THEN <<d>>
    ELSE IF SortKey(Head(list)) >= SortKey(d)
         THEN <<Head(list)>> \o InsertDescending(Tail(list), d)
         ELSE <<d>> \o list

\* sorted(detections, key=..., reverse=True): descending, and stable
RECURSIVE sorted_detections(_, _)
sorted_detections(detections, n) ==
    IF n = 0 THEN <<>>
    ELSE InsertDescending(sorted_detections(detections, n - 1), detections[n])

\* list[:n]
FirstN(list, n) == SubSeq(list, 1, Min(n, Len(list)))

\* The detections of one severity, in list order
OfSeverity(detections, severity) ==
    SelectSeq(detections, LAMBDA d : d.severity = severity)

RECURSIVE ReportLines(_)
ReportLines(list) ==
    IF list = <<>> THEN <<>>
    ELSE <<[line_number |-> Head(list).line_number,
            description |-> Head(list).description]>> \o ReportLines(Tail(list))

RECURSIVE Recommendations(_)
Recommendations(list) ==
    IF list = <<>> THEN <<>>
    ELSE <<Head(list).recommendation>> \o Recommendations(Tail(list))

generate_impact_report(detections) ==
    LET critical == OfSeverity(detections, "CRITICAL")
        warnings == OfSeverity(detections, "WARNING")
        info     == OfSeverity(detections, "INFO")
    IN  [impact |-> assess_impact(detections),
         detected |-> Len(detections),
         critical |-> [count |-> Len(critical), lines |-> ReportLines(FirstN(critical, 3))],
         warnings |-> [count |-> Len(warnings), lines |-> ReportLines(FirstN(warnings, 3))],
         info |-> [count |-> Len(info), lines |-> ReportLines(FirstN(info, 2))],
         recommendations |->
             Recommendations(FirstN(sorted_detections(detections, Len(detections)), 5))]

(***************************************************************************)
(* The assessor driven by a caller: a finding list is built and handed to  *)
(* assess_impact.                                                          *)
(***************************************************************************)
\* A detection as a caller of the assessor makes one up.
Synthetic(pattern_type, severity, confidence) ==
    Detection(pattern_type, severity, 1, "", "", "", confidence, 0, 0)

\* The detections a caller hands over.
SampleDetections ==
    {Synthetic("silent_fallback", "CRITICAL", "1.0"),
     Synthetic("silent_fallback", "CRITICAL", "0.9"),
     Synthetic("assumption_bypass", "INFO", "0.85"),
     Synthetic("assumption_bypass", "WARNING", "0.7"),
     Synthetic("security_shortcut", "CRITICAL", "1.0"),
     Synthetic("security_shortcut", "WARNING", "0.95"),
     Synthetic("performance_degradation", "WARNING", "0.8"),
     Synthetic("duplicate_code", "WARNING", "0.9")}

\* impact is <<>> until assess_impact has returned, then <<the ImpactScore>>.
NoImpact == <<>>

\* The threads that call analyze_code, and a thread that has not called yet.
Threads == {"first", "second"}

NotCalled ==
    [pc |-> "idle", object |-> 0, code |-> Code(<<>>, FALSE), pending |-> <<>>,
     raises |-> "", result |-> 0, value |-> <<>>]

\* The hook has not been started.
NotStarted == [pc |-> "start"]

\* A detector object has been constructed (__init__: self.detections = []);
\* no call has been made.
Init ==
    /\ findings = <<>>
    /\ impact = NoImpact
    /\ heap = << <<>> >>
    /\ self_detections = 1
    /\ calls = <<>>
    /\ report = <<>>
    /\ detectors = <<>>
    /\ threads = [t \in Threads |-> NotCalled]
    /\ hook = NotStarted

\* The caller appends one more detection to the list it will pass.
AddDetection ==
    /\ Len(findings) < MaxFindings
    /\ \E d \in SampleDetections : findings' = Append(findings, d)
    /\ impact' = NoImpact
    /\ UNCHANGED <<heap, self_detections, calls, report, detectors, threads, hook>>

\* impact = assessor.assess_impact(detections)
AssessImpact ==
    /\ impact = NoImpact
    /\ impact' = <<assess_impact(findings)>>
    /\ UNCHANGED <<findings, heap, self_detections, calls, report, detectors, threads, hook>>

NextAssess == AddDetection \/ AssessImpact

\* The detections a caller hands to generate_impact_report: what the
\* detector emits for an eval( and an exec( call (same key, different
\* advice) and for a silenced Exception.
ReportedDetections ==
    {Detection("security_shortcut", "CRITICAL", 1, "eval(data)",
               "eval() allows arbitrary code execution",
               "Never use eval(). Parse JSON with json.loads() or use ast.literal_eval() for literals",
               "0.95", 2, 0),
     Detection("security_shortcut", "CRITICAL", 2, "exec(data)",
               "exec() allows arbitrary code execution",
               "Refactor to avoid exec(). Use functions, classes, or importlib instead",
               "0.95", 3, 11),
     Detection("silent_fallback", "WARNING", 5, "except Exception: pass",
               "Exception silenced without logging",
               "Log the exception: logger.warning(f'Error: {e}', exc_info=True)",
               "0.95", 2, 40)}

\* The caller appends one more detection to the list it will report on.
AddReported ==
    /\ Len(findings) < MaxReported
    /\ report = <<>>
    /\ \E d \in ReportedDetections : findings' = Append(findings, d)
    /\ UNCHANGED <<impact, heap, self_detections, calls, report, detectors, threads, hook>>

\* report = assessor.generate_impact_report(detections)
GenerateImpactReport ==
    /\ report = <<>>
    /\ report' = <<generate_impact_report(findings)>>
    /\ UNCHANGED <<findings, impact, heap, self_detections, calls, detectors, threads, hook>>

NextReport == AddReported \/ GenerateImpactReport

SpecReport == Init /\ [][NextReport]_vars

SpecAssess == Init /\ [][NextAssess]_vars

\* The (category, severity, confidence) combinations of the Detection(...)
\* expressions of the eight detectors.
EmittableDetections ==
    {Synthetic("silent_fallback", "CRITICAL", "1.0"),
     Synthetic("silent_fallback", "WARNING", "0.95"),
     Synthetic("silent_fallback", "WARNING", "0.9"),
     Synthetic("silent_fallback", "WARNING", "0.85"),
     Synthetic("warning_suppression", "WARNING", "0.95"),
     Synthetic("assumption_bypass", "WARNING", "0.7"),
     Synthetic("duplicate_code", "WARNING", "0.9"),
     Synthetic("performance_degradation", "INFO", "0.6"),
     Synthetic("performance_degradation", "WARNING", "0.8"),
     Synthetic("security_shortcut", "CRITICAL", "0.95"),
     Synthetic("error_masking", "INFO", "0.8"),
     Synthetic("test_avoidance", "WARNING", "0.9")}

\* analyze_code appends one more detection to the list the hook will assess.
AddEmitted ==
    /\ Len(findings) < MaxEmitted
    /\ \E d \in EmittableDetections : findings' = Append(findings, d)
    /\ impact' = NoImpact
    /\ UNCHANGED <<heap, self_detections, calls, report, detectors, threads, hook>>

NextEmit == AddEmitted \/ AssessImpact

SpecEmit == Init /\ [][NextEmit]_vars

\* One analysis per detector object, as the hook and main() make it.
NextDetect == \E code \in Inputs : calls = <<>> /\ AnalyzeCode(code)

SpecDetect == Init /\ [][NextDetect]_vars

\* One detector object analysing several texts in turn.
NextReuse == \E code \in ReuseInputs : Len(calls) < MaxCalls /\ AnalyzeCode(code)

SpecReuse == Init /\ [][NextReuse]_vars

(***************************************************************************)
(* analyze_code called from two threads.  A thread switch can fall between *)
(* any two statements; what one invocation shares with another is the list *)
(* self.detections of its object, so a step is one statement that reads or *)
(* writes it: the assignment of line 65, each append of a detector, and    *)
(* the return of line 78.  The detectors read only the text, so what an    *)
(* invocation appends does not depend on the steps of the other.           *)
(***************************************************************************)
ConcurrentInputs ==
    {Code(<<>>, FALSE),
     Code(<<"eval_call">>, TRUE),
     Code(<<"exception_pass", "bare_except_inline">>, TRUE),
     Code(<<"def_plain">>, FALSE),
     Code(<<"exception_pass", "lone_surrogate", "eval_call">>, TRUE)}

\* detector = SilentAlarmDetector(): __init__ binds detections to a new list
Construct ==
    /\ Len(detectors) < MaxObjects
    /\ heap' = Append(heap, <<>>)
    /\ detectors' = Append(detectors, Len(heap) + 1)
    /\ UNCHANGED <<findings, impact, self_detections, calls, report, threads, hook>>

\* A thread calls detector.analyze_code(code) on one of the objects.
Enter(t) ==
    /\ threads[t].pc = "idle"
    /\ \E object \in 1 .. Len(detectors), code \in ConcurrentInputs :
           threads' = [threads EXCEPT ![t] =
                          [@ EXCEPT !.pc = "reset", !.object = object, !.code = code]]
    /\ UNCHANGED <<findings, impact, heap, self_detections, calls, report, detectors, hook>>

\* self.detections = []  (line 65); the detectors' findings are still to come
ResetDetections(t) ==
    LET reset  == NewList(heap, detectors[threads[t].object])
        raises == assumption_bypass_raises(threads[t].code)
    IN  /\ threads[t].pc = "reset"
        /\ heap' = reset.lists
        /\ detectors' = [detectors EXCEPT ![threads[t].object] = reset.ref]
        /\ threads' = [threads EXCEPT ![t] =
                          [@ EXCEPT !.pc = "detect", !.raises = raises,
                                    !.pending = IF raises = ""
                                                THEN AllDetectors(threads[t].code)
                                                ELSE BeforeParse(threads[t].code)]]
        /\ UNCHANGED <<findings, impact, self_detections, calls, report, hook>>

\* self.detections.append(Detection(...)) in one of the detectors
AppendDetection(t) ==
    LET ref == detectors[threads[t].object]
    IN  /\ threads[t].pc = "detect"
        /\ threads[t].pending # <<>>
        /\ heap' = [heap EXCEPT ![ref] = Append(@, Head(threads[t].pending))]
        /\ threads' = [threads EXCEPT ![t] = [@ EXCEPT !.pending = Tail(@)]]
        /\ UNCHANGED <<findings, impact, self_detections, calls, report, detectors, hook>>

\* return self.detections  (line 78), or the exception of ast.parse leaves
\* the call
Return(t) ==
    LET ref == detectors[threads[t].object]
    IN  /\ threads[t].pc = "detect"
        /\ threads[t].pending = <<>>
        /\ threads' = [threads EXCEPT ![t] =
                          IF threads[t].raises # ""
                          THEN [@ EXCEPT !.pc = "raised"]
                          ELSE [@ EXCEPT !.pc = "returned", !.result = ref,
                                         !.value = heap[ref]]]
        /\ UNCHANGED <<findings, impact, heap, self_detections, calls, report, detectors, hook>>

NextConcurrent ==
    \/ Construct
    \/ \E t \in Threads : Enter(t)
    \/ \E t \in Threads : ResetDetections(t)
    \/ \E t \in Threads : AppendDetection(t)
    \/ \E t \in Threads : Return(t)

SpecConcurrent == Init /\ [][NextConcurrent]_vars

(***************************************************************************)
(* The pre-tool-use hook (.claude-hooks/pre-tool-use/                      *)
(* alarm_silencing_detector.py).  A run of main reads one JSON object from *)
(* stdin and ends in sys.exit; of what it prints to stderr the model keeps *)
(* the branch that printed it (the stream is taken to accept the text).    *)
(***************************************************************************)
\* any(keyword in line for keyword in ['python', 'def ', 'class ', 'import '])
HasKeyword(line) ==
    line \in {"def get(d):", "def load(path):", "def outer(a):", "    def inner(b):",
              "def safe(v):", "def test_x():", "def broken(:", "def f(a): pass",
              "def g(): pass", "def gather(*items):", "async def pull(src):",
              "def pos(x, /, y):"}

\* any(keyword in command for keyword in [...]): no keyword holds a line end
AnyKeyword(command) ==
    \E k \in 1 .. Len(split(command)) : HasKeyword(split(command)[k])

\* The empty string.
NoCode == Code(<<>>, FALSE)

\* extract_code_from_tool_input
extract_code_from_tool_input(tool_input) ==
    IF "content" \in DOMAIN tool_input THEN tool_input["content"]
    ELSE IF "new_string" \in DOMAIN tool_input THEN tool_input["new_string"]
    ELSE IF "command" \in DOMAIN tool_input THEN tool_input["command"]
    ELSE NoCode

\* should_analyze
should_analyze(tool_name, tool_input) ==
    /\ tool_name \in {"Write", "Edit", "Bash"}
    /\ tool_name = "Bash" =>
           AnyKeyword(IF "command" \in DOMAIN tool_input
                      THEN tool_input["command"] ELSE NoCode)

\* The entry log_detection appends to detection_history.jsonl, without its
\* timestamp.
log_entry(detections, impact_score) ==
    [num_detections |-> Len(detections),
     impact_score |-> impact_score,
     detections |-> [i \in 1 .. Len(detections) |->
                        [pattern |-> detections[i].pattern_type,
                         severity |-> detections[i].severity,
                         line |-> detections[i].line_number,
                         description |-> detections[i].description]]]

\* sum(1 for d in detections if d.severity == Severity.CRITICAL)
critical_count(detections) ==
    Len(SelectSeq(detections, LAMBDA d : d.severity = "CRITICAL"))

\* Mutant: the decision looks at risk_level only.
BranchByRiskLevel(detections, score) ==
    IF score.risk_level = "CRITICAL" THEN "block"
    ELSE IF score.risk_level \in {"HIGH", "MEDIUM"} THEN "warn"
    ELSE "info"

\* The if / elif / else of lines 122-161.
Branch(detections, score) ==
    IF critical_count(detections) > 0 \/ score.risk_level = "CRITICAL" THEN "block"
    ELSE IF score.risk_level \in {"HIGH", "MEDIUM"} THEN "warn"
    ELSE "info"

\* How a run ended: the exit code, the statement that ended it, what was
\* found and what was appended to the history file.
Exited(stdin, exit_code, branch, detections, history) ==
    [pc |-> "exited", stdin |-> stdin, exit_code |-> exit_code, branch |-> branch,
     detections |-> detections, history |-> history]

\* main from log_detection on (lines 111-161); log_raises: the data
\* directory cannot be made or the history file cannot be written.
LogAndDecide(stdin, log_raises, detections, score) ==
    IF log_raises
    THEN Exited(stdin, 0, "error", detections, <<>>)
    ELSE Exited(stdin,
                IF Branch(detections, score) = "block" THEN 2 ELSE 0,
                Branch(detections, score),
                detections,
                <<log_entry(detections,
                            [total_score |-> score.total_score,
                             risk_level |-> score.risk_level,
                             performance_cost |-> score.performance_cost,
                             security_risk |-> score.security_risk])>>)

\* main from the test of the detections on (lines 104-109)
AssessDetections(stdin, log_raises, detections) ==
    IF detections = <<>>
    THEN Exited(stdin, 0, "clean", <<>>, <<>>)
    ELSE LogAndDecide(stdin, log_raises, detections, assess_impact(detections))

\* main from the test of the code on (lines 97-102); an exception that
\* leaves analyze_code is caught at line 163
AnalyzeExtracted(stdin, log_raises, code) ==
    IF code = NoCode \/ len(code) < 20
    THEN Exited(stdin, 0, "trivial", <<>>, <<>>)
    ELSE IF assumption_bypass_raises(code) # ""
    THEN Exited(stdin, 0, "error", <<>>, <<>>)
    ELSE AssessDetections(stdin, log_raises, AllDetectors(code))

\* main, for what json.load gives (stdin.valid is false if it raises) and
\* for whether log_detection fails.
main(stdin, log_raises) ==
    IF ~stdin.valid
    THEN Exited(stdin, 0, "error", <<>>, <<>>)
    ELSE IF ~should_analyze(stdin.tool_name, stdin.tool_input)
    THEN Exited(stdin, 0, "pass", <<>>, <<>>)
    ELSE AnalyzeExtracted(stdin, log_raises,
                          extract_code_from_tool_input(stdin.tool_input))

\* The texts a tool use carries.
HookCodes ==
    {NoCode,
     Code(<<"eval_call">>, FALSE),
     Code(<<"eval_call", "eval_call">>, FALSE),
     Code(<<"bare_except_inline">>, TRUE),
     Code(<<"exception_pass">>, TRUE),
     Code(<<"def_plain">>, FALSE),
     Code(<<"def_checked">>, TRUE),
     Code(<<"def_plain", "eval_call">>, TRUE),
     Code(<<"nested_loops">>, TRUE),
     Code(<<"lone_surrogate", "eval_call", "eval_call">>, TRUE)}

\* What json.load(sys.stdin) gives: nothing (it raises), or an object with a
\* tool name and a tool input.
HookInputs ==
    {[valid |-> FALSE]}
    \cup {[valid |-> TRUE, tool_name |-> name, tool_input |-> input] :
            name \in {"Write", "Edit", "Bash", "Read"},
            input \in {<<>>}
                \cup {[content |-> c] : c \in HookCodes}
                \cup {[new_string |-> c] : c \in HookCodes}
                \cup {[command |-> c] : c \in HookCodes}
                \cup {[content |-> c, command |-> k] :
                          c \in {NoCode, Code(<<"def_checked">>, TRUE)},
                          k \in HookCodes}}

\* One run of the hook.
Main ==
    /\ hook = NotStarted
    /\ \E stdin \in HookInputs, log_raises \in BOOLEAN :
           hook' = main(stdin, log_raises)
    /\ UNCHANGED <<findings, impact, heap, self_detections, calls, report,
                   detectors, threads>>

NextHook == Main

SpecHook == Init /\ [][NextHook]_vars

(***************************************************************************)
(* Properties of assess_impact.                                            *)
(***************************************************************************)
Returned == impact # NoImpact
Score == impact[1]

\* C1: assess_impact of an empty list returns the zero score: every metric
\* 0, estimated_debug_hours 0.0 and risk_level LOW.
C1_EmptySafety ==
    (Returned /\ findings = <<>>) =>
        /\ Score.total_score = 0
        /\ Score.performance_cost = 0
        /\ Score.security_risk = 0
        /\ Score.maintainability_debt = 0
        /\ Score.estimated_debug_hours = 0
        /\ Score.risk_level = "LOW"

C1_Witness == Returned /\ findings = <<>>

\* C2: for every finding list the four integer metrics of the returned
\* ImpactScore lie in 0..100.
C2_Bounded ==
    Returned =>
        /\ Score.total_score \in 0 .. 100
        /\ Score.performance_cost \in 0 .. 100
        /\ Score.security_risk \in 0 .. 100
        /\ Score.maintainability_debt \in 0 .. 100

\* A call whose raw security average (190) exceeds the scale and was clamped.
C2_Witness ==
    /\ Returned
    /\ Len(findings) >= 1
    /\ Trunc(FDivInt(Accumulate(findings, "security"), Len(findings))) > 100
    /\ Score.security_risk = 100

\* C3: for a non-empty list risk_level is decided by total_score and
\* security_risk alone, first match wins: CRITICAL if total >= 80 or
\* security >= 90, else HIGH if total >= 60 or security >= 70, else MEDIUM
\* if total >= 40, else LOW.
C3_RiskLevel ==
    (Returned /\ findings # <<>>) =>
        LET t == Score.total_score
            s == Score.security_risk
        IN  /\ (t >= 80 \/ s >= 90) => Score.risk_level = "CRITICAL"
            /\ (~(t >= 80 \/ s >= 90) /\ (t >= 60 \/ s >= 70)) =>
                   Score.risk_level = "HIGH"
            /\ (~(t >= 80 \/ s >= 90) /\ ~(t >= 60 \/ s >= 70) /\ t >= 40) =>
                   Score.risk_level = "MEDIUM"
            /\ (~(t >= 80 \/ s >= 90) /\ ~(t >= 60 \/ s >= 70) /\ t < 40) =>
                   Score.risk_level = "LOW"
            /\ (t = 79 /\ s = 89) => Score.risk_level = "HIGH"
            /\ (t = 79 /\ s = 90) => Score.risk_level = "CRITICAL"

\* A call that lands exactly on the security threshold 90 with a total
\* below 80: CRITICAL by the security disjunct alone.
C3_Witness ==
    /\ Returned
    /\ findings # <<>>
    /\ Score.security_risk = 90
    /\ Score.total_score < 80
    /\ Score.risk_level = "CRITICAL"

\* The list with the WARNING finding at position i made CRITICAL.
Escalated(i) == [findings EXCEPT ![i].severity = "CRITICAL"]

\* C4: replacing one WARNING finding by the same finding with severity
\* CRITICAL never decreases security_risk, performance_cost or
\* maintainability_debt.
C4_MonotonicSeverity ==
    Returned =>
        \A i \in 1 .. Len(findings) :
            findings[i].severity = "WARNING" =>
                LET after == assess_impact(Escalated(i))
                IN  /\ after.security_risk >= Score.security_risk
                    /\ after.performance_cost >= Score.performance_cost
                    /\ after.maintainability_debt >= Score.maintainability_debt

\* A call where the replacement strictly raises all three metrics.
C4_Witness ==
    /\ Returned
    /\ \E i \in 1 .. Len(findings) :
           /\ findings[i].severity = "WARNING"
           /\ LET after == assess_impact(Escalated(i))
              IN  /\ after.security_risk > Score.security_risk
                  /\ after.performance_cost > Score.performance_cost
                  /\ after.maintainability_debt > Score.maintainability_debt

\* The reorderings of a list of length n.
Reorderings(n) ==
    {p \in [1 .. n -> 1 .. n] : \A i, j \in 1 .. n : i # j => p[i] # p[j]}

Reordered(list, p) == [i \in 1 .. Len(list) |-> list[p[i]]]

\* C5: assess_impact returns the same ImpactScore, all six fields equal,
\* for a list and for every permutation of it.
C5_OrderIndependent ==
    Returned =>
        \A p \in Reorderings(Len(findings)) :
            assess_impact(Reordered(findings, p)) = Score

\* The synthetic finding of the clamping test.
CriticalSecurityShortcut == Synthetic("security_shortcut", "CRITICAL", "1.0")

\* C6: a list of N >= 1 findings that are all CRITICAL, confidence 1.0,
\* SECURITY_SHORTCUT yields security_risk exactly 100.
C6_Clamping ==
    (/\ Returned
     /\ Len(findings) >= 1
     /\ \A i \in 1 .. Len(findings) : findings[i] = CriticalSecurityShortcut)
        => Score.security_risk = 100

C6_Witness ==
    /\ Returned
    /\ Len(findings) = MaxFindings
    /\ \A i \in 1 .. Len(findings) : findings[i] = CriticalSecurityShortcut
    /\ Score.security_risk = 100

\* A confidence literal as a number of hundredths.
Hundredths(lit) ==
    CASE lit = "1.0"  -> 100
      [] lit = "0.95" -> 95
      [] lit = "0.9"  -> 90
      [] lit = "0.85" -> 85
      [] lit = "0.8"  -> 80
      [] lit = "0.7"  -> 70
      [] lit = "0.6"  -> 60

\* The sum over the detections of weight * multiplier * confidence for one
\* metric, as an exact number of two-hundredths.
RECURSIVE ExactSum(_, _)
ExactSum(detections, metric) ==
    IF detections = <<>> THEN 0
    ELSE WeightsOf(Head(detections).pattern_type)[metric]
             * SEVERITY_MULTIPLIERS(Head(detections).severity)
             * Hundredths(Head(detections).confidence)
         + ExactSum(Tail(detections), metric)

\* value is min(100, the whole part of sum / n)
AveragedAndClamped(value, sum, n) ==
    \/ value = 100 /\ sum >= 100 * 200 * n
    \/ value * 200 * n <= sum /\ sum < (value + 1) * 200 * n

\* C15: for every non-empty list estimated_debug_hours is the sum over the
\* findings of debug_hours weight * multiplier * confidence, rounded to one
\* decimal and not divided by the number of findings; appending a finding
\* (here the last one, to the list before it) never decreases it; the three
\* other metrics are divided by the count.
C15_DebugHoursTotal ==
    (Returned /\ findings # <<>>) =>
        LET n == Len(findings)
        IN  /\ Score.estimated_debug_hours * 20 - ExactSum(findings, "debug_hours")
                   \in -10 .. 10
            /\ Score.estimated_debug_hours >=
                   assess_impact(SubSeq(findings, 1, n - 1)).estimated_debug_hours
            /\ AveragedAndClamped(Score.performance_cost,
                                  ExactSum(findings, "performance"), n)
            /\ AveragedAndClamped(Score.security_risk,
                                  ExactSum(findings, "security"), n)
            /\ AveragedAndClamped(Score.maintainability_debt,
                                  ExactSum(findings, "maintainability"), n)

\* Several findings whose debug hours add up to more than any one of them
\* contributes, while performance_cost is their average.
C15_Witness ==
    /\ Returned
    /\ Len(findings) >= 2
    /\ \A i \in 1 .. Len(findings) :
           Score.estimated_debug_hours * 20 > ExactSum(<<findings[i]>>, "debug_hours") + 10
    /\ Score.performance_cost < 100
    /\ Score.performance_cost * 200 < ExactSum(findings, "performance")

\* C17: for every non-empty list of detections that analyze_code can emit,
\* if none is CRITICAL then total_score < 40 and security_risk < 70, so
\* risk_level is LOW; hence risk_level CRITICAL implies a CRITICAL finding
\* and the hook never takes its HIGH/MEDIUM branch.
C17_NonCriticalIsLow ==
    (Returned /\ findings # <<>>) =>
        LET critical == \E i \in 1 .. Len(findings) : findings[i].severity = "CRITICAL"
        IN  /\ ~critical => /\ Score.total_score < 40
                            /\ Score.security_risk < 70
                            /\ Score.risk_level = "LOW"
            /\ Score.risk_level = "CRITICAL" => critical
            /\ Branch(findings, Score) # "warn"

\* Two or more findings, none CRITICAL, with a total near the highest such
\* a list reaches.
C17_Witness ==
    /\ Returned
    /\ Len(findings) >= 2
    /\ \A i \in 1 .. Len(findings) : findings[i].severity # "CRITICAL"
    /\ Score.total_score >= 27
    /\ Score.risk_level = "LOW"

(***************************************************************************)
(* Properties of analyze_code.                                             *)
(***************************************************************************)
\* The calls that returned a list.
ReturnedCalls == {i \in 1 .. Len(calls) : calls[i].raised = ""}

\* C7: analyze_code never raises to its caller; whenever ast.parse fails,
\* for whatever reason, the structural detector contributes nothing and the
\* list returned is exactly what the other seven detectors find.
C7_NeverRaises ==
    \A i \in 1 .. Len(calls) :
        /\ calls[i].raised = ""
        /\ ast_parse(calls[i].code).raised # "" =>
               calls[i].value = BeforeParse(calls[i].code) \o AfterParse(calls[i].code)

\* C8: whatever calls were made before on the same detector object, a call
\* returns the list a fresh detector returns for its text, and the list an
\* earlier call returned still holds what it held on return.
C8_NoCrossCallMemory ==
    \A i \in ReturnedCalls :
        /\ calls[i].value = AllDetectors(calls[i].code)
        /\ heap[calls[i].result] = calls[i].value

\* Two calls on one object, both with findings, for different texts.
C8_Witness ==
    \E i, j \in ReturnedCalls :
        /\ i < j
        /\ calls[i].code # calls[j].code
        /\ calls[i].value # <<>>
        /\ calls[j].value # <<>>
        /\ calls[i].value # calls[j].value
        /\ heap[calls[i].result] = calls[i].value

\* The fixed order of the detectors (analyze_code, lines 69-76).
DetectorOrder ==
    <<"silent_fallback", "warning_suppression", "assumption_bypass",
      "duplicate_code", "performance_degradation", "security_shortcut",
      "error_masking", "test_avoidance">>

DetectorIndex(d) == CHOOSE k \in 1 .. Len(DetectorOrder) : DetectorOrder[k] = d.pattern_type

\* The nesting depth of node n in the syntax tree.
RECURSIVE Depth(_, _)
Depth(nodes, n) == IF n = 0 THEN 0 ELSE 1 + Depth(nodes, nodes[n].parent)

\* What orders the findings of one detector before the position does: the
\* rule, and for the structural detector the depth of the definition.
Group(code, d) ==
    IF d.pattern_type # "assumption_bypass" THEN d.rule
    ELSE LET nodes == ast_parse(code).body
         IN  Depth(nodes, CHOOSE n \in 1 .. Len(nodes) :
                              /\ nodes[n].kind = "FunctionDef"
                              /\ nodes[n].lineno = d.line_number)

\* C9 as stated: the returned list is sorted by (detector, position of the
\* match start), also across the rules of one detector and for nested
\* functions.
C9_SortedByDetectorAndPosition ==
    \A c \in ReturnedCalls :
        \A i, j \in 1 .. Len(calls[c].value) :
            i < j =>
                LET a == calls[c].value[i]
                    b == calls[c].value[j]
                IN  \/ DetectorIndex(a) < DetectorIndex(b)
                    \/ DetectorIndex(a) = DetectorIndex(b) /\ a.start <= b.start

\* C9, corrected: the returned list is sorted by detector in the fixed
\* order; within a detector by rule in catalogue order (the structural
\* detector: by nesting depth of the definition, breadth first); and only
\* within one rule (one depth) by the position of the match start.
C9_SortedByDetectorRuleAndPosition ==
    \A c \in ReturnedCalls :
        \A i, j \in 1 .. Len(calls[c].value) :
            i < j =>
                LET a == calls[c].value[i]
                    b == calls[c].value[j]
                    ga == Group(calls[c].code, a)
                    gb == Group(calls[c].code, b)
                IN  \/ DetectorIndex(a) < DetectorIndex(b)
                    \/ /\ DetectorIndex(a) = DetectorIndex(b)
                       /\ ga < gb \/ (ga = gb /\ a.start <= b.start)

\* A list in which a later rule's (a deeper definition's) finding follows a
\* finding of the same detector that begins behind it in the text.
C9_Witness ==
    \E c \in ReturnedCalls :
        \E i, j \in 1 .. Len(calls[c].value) :
            LET a == calls[c].value[i]
                b == calls[c].value[j]
            IN  /\ i < j
                /\ DetectorIndex(a) = DetectorIndex(b)
                /\ Group(calls[c].code, a) < Group(calls[c].code, b)
                /\ a.start > b.start

\* The texts of the duplicate-block scenario and the lines at which their
\* two blocks begin.
RECURSIVE BlockStarts(_, _)
BlockStarts(units, line) ==
    IF units = <<>> THEN <<>>
    ELSE (IF Head(units) = "block" THEN <<line>> ELSE <<>>)
             \o BlockStarts(Tail(units), line + Len(UnitLines(Head(units))))

DuplicateFindings(list) == SelectSeq(list, LAMBDA d : d.pattern_type = "duplicate_code")

\* C10: for a text with two identical 12-line blocks separated by unrelated
\* code, analyze_code returns exactly one DUPLICATE_CODE finding; its
\* line_number is the start line of the second block and its snippet names
\* the start line of the first.
C10_OneDuplicateFinding ==
    \A c \in ReturnedCalls :
        calls[c].code \in DuplicateTexts =>
            LET found == DuplicateFindings(calls[c].value)
                at == BlockStarts(calls[c].code.units, 1)
            IN  /\ Len(found) = 1
                /\ found[1].line_number = at[2]
                /\ found[1].code_snippet =
                       "Duplicate block at line " \o ToString(at[2])
                           \o " (also at " \o ToString(at[1]) \o ")"

(***************************************************************************)
(* Properties of generate_impact_report.                                   *)
(***************************************************************************)
\* The place of finding i in the ranking: behind every finding with a
\* larger key and behind the earlier findings with the same key.
Rank(i) ==
    Cardinality({j \in 1 .. Len(findings) : SortKey(findings[j]) > SortKey(findings[i])})
        + Cardinality({j \in 1 .. i - 1 : SortKey(findings[j]) = SortKey(findings[i])})
        + 1

\* C11: the recommendations printed are those of the first five findings
\* in the order of severity multiplier times the sum of the four weights
\* of the category, descending, findings with equal keys in list order.
C11_Ranking ==
    report # <<>> =>
        LET printed == report[1].recommendations
        IN  /\ Len(printed) = Min(5, Len(findings))
            /\ \A i \in 1 .. Len(findings) :
                   /\ SortKey(findings[i]) =
                          SEVERITY_MULTIPLIERS(findings[i].severity)
                              * (WeightsOf(findings[i].pattern_type).performance
                                 + WeightsOf(findings[i].pattern_type).security
                                 + WeightsOf(findings[i].pattern_type).maintainability
                                 + WeightsOf(findings[i].pattern_type).debug_hours)
                   /\ Rank(i) <= 5 => printed[Rank(i)] = findings[i].recommendation

\* A report on more than five findings in which two findings with equal
\* keys and different advice are both printed, and a finding is pushed
\* out of the first five by a later finding with a larger key.
C11_Witness ==
    /\ report # <<>>
    /\ Len(findings) > 5
    /\ \E i, j \in 1 .. Len(findings) :
           /\ i < j
           /\ SortKey(findings[i]) = SortKey(findings[j])
           /\ findings[i].recommendation # findings[j].recommendation
           /\ Rank(j) <= 5
    /\ \E i, j \in 1 .. Len(findings) :
           i < j /\ SortKey(findings[i]) < SortKey(findings[j]) /\ Rank(i) > 5

(***************************************************************************)
(* Short input texts.                                                      *)
(***************************************************************************)
\* The units in which nothing is written that a rule looks for.
PatternFreeUnits ==
    {"tiny_clean", "def_noargs", "def_varargs", "def_async", "def_checked",
     "broken_def", "lone_surrogate", "spacer_one", "spacer_two"}

PatternFree(code) ==
    \A u \in 1 .. Len(code.units) : code.units[u] \in PatternFreeUnits

ZeroScore(score) ==
    /\ score.total_score = 0
    /\ score.performance_cost = 0
    /\ score.security_risk = 0
    /\ score.maintainability_debt = 0
    /\ score.estimated_debug_hours = 0
    /\ score.risk_level = "LOW"

ReturnedThreads == {t \in Threads : threads[t].pc = "returned"}

\* C13: when the steps of two analyze_code invocations interleave, on two
\* objects or on the same one, each invocation returns exactly the findings
\* of its own input text, none missing and none of the other invocation.
C13_NoSharedState ==
    \A t \in ReturnedThreads : threads[t].value = AllDetectors(threads[t].code)

\* The same, for invocations made on different detector objects only.
C13_OwnObjectIsolated ==
    \A t \in ReturnedThreads :
        (\A u \in Threads \ {t} : threads[u].object # threads[t].object) =>
            threads[t].value = AllDetectors(threads[t].code)

\* Two invocations on different objects, interleaved, both with findings.
C13_OwnObjectWitness ==
    \E t, u \in ReturnedThreads :
        /\ t # u
        /\ threads[t].object # threads[u].object
        /\ threads[t].value # <<>>
        /\ threads[u].value # <<>>
        /\ threads[t].code # threads[u].code

(***************************************************************************)
(* Properties of the structural detector.                                  *)
(***************************************************************************)
BypassFindings(list) == SelectSeq(list, LAMBDA d : d.pattern_type = "assumption_bypass")

\* The function-like definitions of a tree that declare a parameter and
\* have no If anywhere inside.
Unvalidated(nodes) ==
    {n \in 1 .. Len(nodes) :
        /\ nodes[n].kind \in {"FunctionDef", "AsyncFunctionDef"}
        /\ Parameters(nodes[n].name) # <<>>
        /\ \A c \in 1 .. Len(nodes) :
               nodes[c].kind = "If" => ~(\E k \in 1 .. Len(walk(nodes, <<n>>)) :
                                            walk(nodes, <<n>>)[k] = c)}

\* C14: for every input that parses, analyze_code emits exactly one
\* ASSUMPTION_BYPASS finding (WARNING, confidence 0.7, at the definition
\* line, its recommendation naming the first parameter) for each
\* function-like definition with at least one parameter of any kind and no
\* conditional inside, and none for any other function.
C14_StructuralDetector ==
    \A c \in ReturnedCalls :
        ast_parse(calls[c].code).raised = "" =>
            LET nodes == ast_parse(calls[c].code).body
                found == BypassFindings(calls[c].value)
            IN  /\ Len(found) = Cardinality(Unvalidated(nodes))
                /\ \A n \in Unvalidated(nodes) :
                       \E i \in 1 .. Len(found) :
                           /\ found[i].line_number = nodes[n].lineno
                           /\ found[i].severity = "WARNING"
                           /\ found[i].confidence = "0.7"
                           /\ found[i].recommendation =
                                  "Add validation: if " \o Parameters(nodes[n].name)[1]
                                      \o " is None: raise ValueError(...)"

\* The same for plain def statements, counting only the parameters that can
\* be passed by position or by keyword (node.args.args).
C14_PlainDefinitions ==
    \A c \in ReturnedCalls :
        ast_parse(calls[c].code).raised = "" =>
            LET nodes == ast_parse(calls[c].code).body
                found == BypassFindings(calls[c].value)
                plain == {n \in 1 .. Len(nodes) :
                             /\ nodes[n].kind = "FunctionDef"
                             /\ nodes[n].args # <<>>
                             /\ \A k \in 1 .. Len(walk(nodes, <<n>>)) :
                                    nodes[walk(nodes, <<n>>)[k]].kind # "If"}
            IN  /\ Len(found) = Cardinality(plain)
                /\ \A n \in plain :
                       \E i \in 1 .. Len(found) :
                           /\ found[i].line_number = nodes[n].lineno
                           /\ found[i].severity = "WARNING"
                           /\ found[i].confidence = "0.7"
                           /\ found[i].recommendation =
                                  "Add validation: if " \o nodes[n].args[1]
                                      \o " is None: raise ValueError(...)"

(***************************************************************************)
(* Properties of the hook.                                                 *)
(***************************************************************************)
\* The code the hook analyses for a tool use, <<>> if it analyses none:
\* Write and Edit always, Bash when the command holds a keyword; the first
\* of content, new_string, command; at least 20 characters.
Selected(stdin) ==
    IF ~stdin.valid THEN <<>>
    ELSE LET input == stdin.tool_input
             given(field) == field \in DOMAIN input
             code == IF given("content") THEN input["content"]
                     ELSE IF given("new_string") THEN input["new_string"]
                     ELSE IF given("command") THEN input["command"]
                     ELSE NoCode
             chosen == \/ stdin.tool_name \in {"Write", "Edit"}
                       \/ /\ stdin.tool_name = "Bash"
                          /\ given("command")
                          /\ AnyKeyword(input["command"])
         IN  IF chosen /\ len(code) >= 20 THEN <<code>> ELSE <<>>

\* A list with a CRITICAL finding or with risk_level CRITICAL.
Blocking(detections) ==
    /\ detections # <<>>
    /\ \/ \E i \in 1 .. Len(detections) : detections[i].severity = "CRITICAL"
       \/ assess_impact(detections).risk_level = "CRITICAL"

\* analyze_code returns for the selected code, and what it returns blocks.
BlockingCode(chosen) ==
    /\ chosen # <<>>
    /\ assumption_bypass_raises(chosen[1]) = ""
    /\ Blocking(AllDetectors(chosen[1]))

\* C16: a run of main exits with code 2 exactly when the tool use was
\* selected for analysis, analyze_code returned at least one finding,
\* assess_impact and log_detection completed, and a finding is CRITICAL or
\* risk_level is CRITICAL; every other run, whatever was raised, exits 0.
C16_ExitCode ==
    hook.pc = "exited" =>
        /\ hook.exit_code \in {0, 2}
        /\ hook.exit_code = 2 <=>
               (hook.history # <<>> /\ BlockingCode(Selected(hook.stdin)))

\* A run that blocks a Bash command for a CRITICAL finding although
\* risk_level is not CRITICAL.
C16_Witness ==
    /\ hook.pc = "exited"
    /\ hook.exit_code = 2
    /\ hook.history # <<>>
    /\ hook.history[1].impact_score.risk_level # "CRITICAL"
    /\ \E i \in 1 .. Len(hook.detections) : hook.detections[i].severity = "CRITICAL"

\* Runs that do not block although the text holds a CRITICAL finding: the
\* history log could not be written, or ast.parse raised.
C16_AllowedOnError ==
    /\ hook.pc = "exited"
    /\ hook.exit_code = 0
    /\ hook.branch = "error"
    /\ hook.stdin.valid
    /\ Selected(hook.stdin) # <<>>

====
